---------------------------- MODULE Spec2Model ----------------------------
(* Model of include/minizinc/utils.hh: the command-line option matcher     *)
(* CLOParser::getOption and the comparison operators of SemanticVersion.   *)
(* A std::string is a sequence of one-character strings; the cursor _i is  *)
(* 0-based as in the source, so the token at the cursor is argv[i + 1].    *)
EXTENDS Integers, Sequences, FiniteSets, TLC

VARIABLES
  argv,      \* CLOParser::_argv, the token sequence
  argv0,     \* the token sequence the parser was constructed over
  i,         \* CLOParser::_i, the caller's cursor
  intSlot,   \* the caller's int storage that pResult points to when Value = int
  strSlot,   \* the caller's std::string storage when Value = std::string
  names,     \* argument of the last getOption call
  kind,      \* "none" (pResult = nullptr), "int" or "str" for the last call
  opt,       \* fValueOptional of the last call
  ret,       \* value returned by the last call
  called,    \* whether getOption has been called
  i0,        \* cursor before the last call
  int0,      \* intSlot before the last call
  str0,      \* strSlot before the last call
  va, vb,    \* two SemanticVersion objects
  lt, le, eq,\* results of va < vb, va <= vb, va == vb
  cmpDone    \* whether the comparison results are those of va, vb

cloVars == <<argv, argv0, i, intSlot, strSlot, names, kind, opt, ret, called, i0, int0, str0>>
verVars == <<va, vb, lt, le, eq, cmpDone>>
vars == <<argv, argv0, i, intSlot, strSlot, names, kind, opt, ret, called, i0, int0, str0,
          va, vb, lt, le, eq, cmpDone>>

-----------------------------------------------------------------------------
(* Bounds *)
MaxArgs == 2      \* longest token sequence
MaxNames == 2     \* most spellings in one names string
MaxComp == 2      \* largest version component

(* Program constants *)
ShortLen == 2     \* a keyword of at most this length may carry a glued value
IntMax == 2147483647

-----------------------------------------------------------------------------
(* Strings *)

\* the tokens and spellings the model draws from
TokenSet == { <<"-","a">>, <<"-","a","b">>, <<"-","a","5">>, <<"5">> }
KeywordSet == { <<"-","a">>, <<"-","a","b">>, <<"-","a","5">> }

SeqsUpTo(S, n) == UNION { [1..k -> S] : k \in 0..n }

RECURSIVE JoinWords(_)
JoinWords(ws) ==
  IF ws = <<>> THEN <<>>
  ELSE IF Len(ws) = 1 THEN ws[1]
  ELSE ws[1] \o <<" ">> \o JoinWords(Tail(ws))

\* the names strings: one to MaxNames distinct spellings separated by a blank
NamesSet ==
  { JoinWords(ws) : ws \in { w \in SeqsUpTo(KeywordSet, MaxNames) :
                               /\ w # <<>>
                               /\ \A m, n \in 1..Len(w) : m # n => w[m] # w[n] } }

IsSpace(c) == c \in {" ", "\t", "\n"}

\* the keywords that successive `iss >> keyword` extractions yield
RECURSIVE SplitWords(_, _, _)
SplitWords(s, cur, acc) ==
  IF s = <<>> THEN (IF cur = <<>> THEN acc ELSE Append(acc, cur))
  ELSE IF IsSpace(Head(s))
       THEN SplitWords(Tail(s), <<>>, IF cur = <<>> THEN acc ELSE Append(acc, cur))
       ELSE SplitWords(Tail(s), Append(cur, Head(s)), acc)

Keywords(nm) == SplitWords(nm, <<>>, <<>>)

\* arg.compare(0, keyword.size(), keyword): 0 iff arg begins with keyword
Compare0(arg, keyword) ==
  IF Len(keyword) <= Len(arg) /\ SubSeq(arg, 1, Len(keyword)) = keyword THEN 0 ELSE 1

\* arg.erase(0, keyword.size())
EraseBadMutant(arg, n) == arg
Erase(arg, n) == SubSeq(arg, n + 1, Len(arg))

-----------------------------------------------------------------------------
(* iss >> tmp for Value = int *)

DigitVal == [c \in {"0","1","2","3","4","5","6","7","8","9"} |->
              CASE c = "0" -> 0 [] c = "1" -> 1 [] c = "2" -> 2 [] c = "3" -> 3
                [] c = "4" -> 4 [] c = "5" -> 5 [] c = "6" -> 6 [] c = "7" -> 7
                [] c = "8" -> 8 [] c = "9" -> 9]

RECURSIVE SkipWs(_)
SkipWs(s) == IF s # <<>> /\ IsSpace(Head(s)) THEN SkipWs(Tail(s)) ELSE s

RECURSIVE LeadingDigits(_)
LeadingDigits(s) ==
  IF s # <<>> /\ Head(s) \in DOMAIN DigitVal
  THEN <<Head(s)>> \o LeadingDigits(Tail(s))
  ELSE <<>>

RECURSIVE DecValue(_, _)
DecValue(ds, acc) ==
  IF ds = <<>> THEN acc ELSE DecValue(Tail(ds), 10 * acc + DigitVal[Head(ds)])

\* formatted extraction of an int: optional whitespace, optional sign, digits;
\* fails on no digits or on a value outside the range of int
ExtractInt(s) ==
  LET t == SkipWs(s)
      signed == t # <<>> /\ Head(t) \in {"+", "-"}
      neg == t # <<>> /\ Head(t) = "-"
      ds == LeadingDigits(IF signed THEN Tail(t) ELSE t)
      mag == DecValue(ds, 0)
      v == IF neg THEN 0 - mag ELSE mag
  IN  IF ds = <<>> \/ v > IntMax \/ v < (0 - IntMax) - 1
      THEN [ok |-> FALSE, val |-> 0]
      ELSE [ok |-> TRUE, val |-> v]

-----------------------------------------------------------------------------
(* CLOParser::getOption *)

Outcome(r, c, is, ss) == [ret |-> r, i |-> c, intSlot |-> is, strSlot |-> ss]

\* line 128: the keyword must be compared exactly
ExactCmp(keyword, k) == ShortLen < Len(keyword) \/ k = "none"

\* lines 128-130: the keyword is skipped
SkipNoTruncMutant(arg, keyword, k) == ExactCmp(keyword, k) /\ arg # keyword
Skip(arg, keyword, k) ==
  \/ (ExactCmp(keyword, k) /\ arg # keyword)
  \/ 0 # Compare0(arg, keyword)

\* lines 141-143: presence flag found
PresenceAdvanceMutant(c, is, ss) == Outcome(TRUE, c + 1, is, ss)
Presence(c, is, ss) == Outcome(TRUE, c, is, ss)

\* lines 145-148: no token follows the keyword (c is the cursor after _i++)
DanglingNoRestoreMutant(c, o, is, ss) == Outcome(o, c, is, ss)
DanglingTwiceMutant(c, o, is, ss) == Outcome(o, c - 2, is, ss)
Dangling(c, o, is, ss) == Outcome(o, c - 1, is, ss)

\* lines 157-162: the value text does not convert
ConvFailNoRestoreMutant(c, combinedArg, o, is, ss) == Outcome(o, c, is, ss)
ConvFail(c, combinedArg, o, is, ss) ==
  Outcome(o, IF ~combinedArg THEN c - 1 ELSE c, is, ss)

\* lines 163-164: the converted value is stored
StoreDropMutant(c, v, is, ss) == Outcome(TRUE, c, is, ss)
Store(c, v, is, ss) == Outcome(TRUE, c, v, ss)

\* lines 151-164: assign the value text arg to *pResult
Assign(c, arg, combinedArg, k, o, is, ss) ==
  IF k = "str"
  THEN Outcome(TRUE, c, is, arg)                 \* assign_string<std::string>
  ELSE LET tmp == ExtractInt(arg)
       IN  IF ~tmp.ok
           THEN ConvFail(c, combinedArg, o, is, ss)
           ELSE Store(c, tmp.val, is, ss)

\* lines 127-166: the loop over the keywords
RECURSIVE KeywordLoopRetryMutant(_, _, _, _, _, _, _)
KeywordLoopRetryMutant(kws, av, c, k, o, is, ss) ==
  IF kws = <<>> THEN Outcome(FALSE, c, is, ss)
  ELSE
    LET keyword == Head(kws)
        arg == av[c + 1]
        rest == KeywordLoopRetryMutant(Tail(kws), av, c, k, o, is, ss)
        try == IF Len(keyword) < Len(arg)
               THEN Assign(c, Erase(arg, Len(keyword)), TRUE, k, o, is, ss)
               ELSE IF c + 1 >= Len(av)
                    THEN Dangling(c + 1, o, is, ss)
                    ELSE Assign(c + 1, av[c + 2], FALSE, k, o, is, ss)
    IN  IF Skip(arg, keyword, k) THEN rest
        ELSE IF k = "none"
             THEN (IF Len(keyword) < Len(arg) THEN rest ELSE Presence(c, is, ss))
             ELSE (IF try.ret THEN try ELSE rest)

RECURSIVE KeywordLoop(_, _, _, _, _, _, _)
KeywordLoop(kws, av, c, k, o, is, ss) ==
  IF kws = <<>> THEN Outcome(FALSE, c, is, ss)
  ELSE
    LET keyword == Head(kws)
        arg == av[c + 1]
    IN  IF Skip(arg, keyword, k)
        THEN KeywordLoop(Tail(kws), av, c, k, o, is, ss)
        ELSE IF Len(keyword) < Len(arg)
        THEN IF k = "none"
             THEN KeywordLoop(Tail(kws), av, c, k, o, is, ss)
             ELSE Assign(c, Erase(arg, Len(keyword)), TRUE, k, o, is, ss)
        ELSE IF k = "none"
             THEN Presence(c, is, ss)
             ELSE IF c + 1 >= Len(av)
                  THEN Dangling(c + 1, o, is, ss)
                  ELSE Assign(c + 1, av[c + 2], FALSE, k, o, is, ss)

\* lines 114-167
getOption(av, c, nm, k, o, is, ss) ==
  IF c >= Len(av) THEN Outcome(FALSE, c, is, ss)
  ELSE KeywordLoop(Keywords(nm), av, c, k, o, is, ss)

-----------------------------------------------------------------------------
(* SemanticVersion *)

Version == [major : 0..MaxComp, minor : 0..MaxComp, patch : 0..MaxComp]

\* operator<
Less(a, b) ==
  IF a.major < b.major THEN TRUE
  ELSE IF a.minor < b.minor THEN TRUE
  ELSE IF a.patch < b.patch THEN TRUE
  ELSE FALSE

\* operator<=
LessEq(a, b) ==
  IF a.major > b.major THEN FALSE
  ELSE IF a.minor > b.minor THEN FALSE
  ELSE IF a.patch > b.patch THEN FALSE
  ELSE TRUE

\* operator==
Equal(a, b) == a.major = b.major /\ a.minor = b.minor /\ a.patch = b.patch

-----------------------------------------------------------------------------
(* State machine of the option parser *)

VerIdle ==
  /\ va = [major |-> 0, minor |-> 0, patch |-> 0]
  /\ vb = [major |-> 0, minor |-> 0, patch |-> 0]
  /\ lt = FALSE /\ le = FALSE /\ eq = FALSE /\ cmpDone = FALSE

CloIdle ==
  /\ intSlot = 0 /\ strSlot = <<>>
  /\ names = <<>> /\ kind = "none" /\ opt = FALSE /\ ret = FALSE
  /\ called = FALSE
  /\ int0 = 0 /\ str0 = <<>>

\* CLOParser(ii, av): a cursor anywhere in 0..size over any token sequence
Init ==
  /\ argv \in SeqsUpTo(TokenSet, MaxArgs)
  /\ argv0 = argv
  /\ i \in 0..Len(argv)
  /\ i0 = i
  /\ CloIdle
  /\ VerIdle

Call(nm, k, o) ==
  \E r \in {getOption(argv, i, nm, k, o, intSlot, strSlot)} :
      /\ names' = nm /\ kind' = k /\ opt' = o
      /\ called' = TRUE
      /\ i0' = i /\ int0' = intSlot /\ str0' = strSlot
      /\ ret' = r.ret
      /\ i' = r.i
      /\ intSlot' = r.intSlot
      /\ strSlot' = r.strSlot
      /\ UNCHANGED <<argv, argv0>>
      /\ UNCHANGED verVars

\* getOption<int>(names) with pResult = nullptr
GetFlag == \E nm \in NamesSet : Call(nm, "none", FALSE)

\* getOption<int>(names, &intSlot, fValueOptional)
GetInt == \E nm \in NamesSet, o \in BOOLEAN : Call(nm, "int", o)

\* getOption<std::string>(names, &strSlot, fValueOptional)
GetString == \E nm \in NamesSet, o \in BOOLEAN : Call(nm, "str", o)

Next == GetFlag \/ GetInt \/ GetString

Spec == Init /\ [][Next]_vars

-----------------------------------------------------------------------------
(* State machine of the version comparisons *)

InitVer ==
  /\ argv = <<>> /\ argv0 = <<>> /\ i = 0 /\ i0 = 0
  /\ CloIdle
  /\ VerIdle

\* SemanticVersion(major, minor, patch) for the left operand
ConstructA ==
  \E v \in Version :
    /\ va' = v
    /\ cmpDone' = FALSE
    /\ UNCHANGED <<vb, lt, le, eq>>
    /\ UNCHANGED cloVars

\* SemanticVersion(major, minor, patch) for the right operand
ConstructB ==
  \E v \in Version :
    /\ vb' = v
    /\ cmpDone' = FALSE
    /\ UNCHANGED <<va, lt, le, eq>>
    /\ UNCHANGED cloVars

CompareVersions ==
  /\ lt' = Less(va, vb)
  /\ le' = LessEq(va, vb)
  /\ eq' = Equal(va, vb)
  /\ cmpDone' = TRUE
  /\ UNCHANGED <<va, vb>>
  /\ UNCHANGED cloVars

NextVer == ConstructA \/ ConstructB \/ CompareVersions

SpecVer == InitVer /\ [][NextVer]_vars

-----------------------------------------------------------------------------
(* Vocabulary of the properties *)

\* the spellings of a names string: its maximal blank-free runs, in order
RECURSIVE RunLen(_)
RunLen(s) == IF s = <<>> \/ IsSpace(s[1]) THEN 0 ELSE 1 + RunLen(Tail(s))
RECURSIVE Words(_)
Words(s) ==
  IF s = <<>> THEN <<>>
  ELSE IF RunLen(s) = 0 THEN Words(Tail(s))
  ELSE <<SubSeq(s, 1, RunLen(s))>> \o Words(SubSeq(s, RunLen(s) + 1, Len(s)))
Spellings == Words(names)
HasSlot == kind # "none"
AtToken == i0 < Len(argv)
Tok == argv[i0 + 1]                \* the token at the pre-call cursor
NextTok == argv[i0 + 2]            \* the token that follows it
HasNext == i0 + 1 < Len(argv)
SlotsUntouched == intSlot = int0 /\ strSlot = str0

IsPrefix(k, t) == Len(k) <= Len(t) /\ \A j \in 1..Len(k) : t[j] = k[j]
IsProperPrefix(k, t) == IsPrefix(k, t) /\ Len(k) < Len(t)
Rest(k, t) == [j \in 1..(Len(t) - Len(k)) |-> t[j + Len(k)]]

\* a spelling matches the current token
Matches(k) == IF Len(k) <= 2 /\ HasSlot THEN IsPrefix(k, Tok) ELSE Tok = k
NoneMatches == \A n \in 1..Len(Spellings) : ~Matches(Spellings[n])
\* index of the first spelling that matches
RECURSIVE FirstFrom(_)
FirstFrom(n) == IF Matches(Spellings[n]) THEN n ELSE FirstFrom(n + 1)
FirstMatch == FirstFrom(1)
FirstMatchExact == AtToken /\ ~NoneMatches /\ Spellings[FirstMatch] = Tok
FirstMatchCombined ==
  /\ AtToken /\ ~NoneMatches /\ HasSlot
  /\ Len(Spellings[FirstMatch]) <= 2
  /\ IsProperPrefix(Spellings[FirstMatch], Tok)

\* the text converts to the type of the slot of the last call
Converts(t) == kind = "str" \/ (kind = "int" /\ ExtractInt(t).ok)
\* the slot of the last call holds the value of the text
SlotHolds(t) ==
  \/ kind = "str" /\ strSlot = t /\ intSlot = int0
  \/ kind = "int" /\ intSlot = ExtractInt(t).val /\ strSlot = str0

-----------------------------------------------------------------------------
(* C1: a call at the end of the tokens, or one none of whose spellings     *)
(* matches the current token, returns false and leaves the cursor and the  *)
(* slots as they were, whatever calls came before it.                      *)
C1_NoMatchNoOp ==
  (called /\ (~AtToken \/ NoneMatches)) =>
    (ret = FALSE /\ i = i0 /\ SlotsUntouched)

\* a non-matching probe with a value slot, made after an earlier call wrote 5
C1_Witness ==
  /\ called /\ AtToken /\ NoneMatches /\ kind = "int"
  /\ int0 = 5 /\ intSlot = 5 /\ ret = FALSE /\ i = i0

\* some spelling of the list is the current token
SomeExact == AtToken /\ \E n \in 1..Len(Spellings) : Spellings[n] = Tok

-----------------------------------------------------------------------------
(* C2 as stated: the current token equals a spelling, a slot is supplied   *)
(* and the next token converts; then the call returns true, the slot holds *)
(* the converted value and the cursor is two past its pre-call value.      *)
C2_AsStated ==
  (called /\ HasSlot /\ SomeExact /\ HasNext /\ Converts(NextTok)) =>
    (ret = TRUE /\ SlotHolds(NextTok) /\ i = i0 + 2)

(* C2 amended: when the first spelling that matches the current token      *)
(* equals it, a slot is supplied and the next token converts, the call     *)
(* returns true, the slot holds the converted value and the cursor is one  *)
(* past its pre-call value, on the value token.                            *)
C2_SeparateValue ==
  (called /\ HasSlot /\ FirstMatchExact /\ HasNext /\ Converts(NextTok)) =>
    (ret = TRUE /\ SlotHolds(NextTok) /\ i = i0 + 1)

\* spellings "-a -ab", int slot, tokens ["-a", "5"], cursor 0
C2_Witness ==
  /\ called /\ kind = "int" /\ i0 = 0
  /\ argv = << <<"-","a">>, <<"5">> >>
  /\ names = <<"-","a"," ","-","a","b">>
  /\ ret = TRUE /\ intSlot = 5 /\ i = 1

-----------------------------------------------------------------------------
(* C3: a short spelling is a proper prefix of the current token, the slot  *)
(* is an int and the remainder does not convert; then the call returns     *)
(* false whatever valueOptional is, cursor and slots unchanged.            *)
C3_CombinedUnparseableFails ==
  called /\ kind = "int" /\ AtToken =>
    \A n \in 1..Len(Spellings) :
      (/\ Len(Spellings[n]) <= 2
       /\ IsProperPrefix(Spellings[n], Tok)
       /\ ~ExtractInt(Rest(Spellings[n], Tok)).ok)
      => (ret = FALSE /\ i = i0 /\ SlotsUntouched)

-----------------------------------------------------------------------------
\* the call made with the n-th spelling alone
Alone(n) == getOption(argv, i0, Spellings[n], kind, opt, int0, str0)

(* C4 as stated: if some spelling of the list makes the call return true   *)
(* when it is supplied alone, the call with the whole list returns true    *)
(* with the cursor and slots the first such spelling produces.             *)
C4_AsStated ==
  called /\ (\E n \in 1..Len(Spellings) : Alone(n).ret) =>
    LET f == CHOOSE n \in 1..Len(Spellings) :
               Alone(n).ret /\ \A m \in 1..(n - 1) : ~Alone(m).ret
    IN  /\ ret = TRUE
        /\ i = Alone(f).i
        /\ intSlot = Alone(f).intSlot
        /\ strSlot = Alone(f).strSlot

(* C4 amended: the first spelling that matches the current token decides:  *)
(* the call with the whole list returns what that spelling returns when it *)
(* is supplied alone, with the same cursor and slots.                      *)
C4_FirstMatchDecides ==
  (called /\ AtToken /\ ~NoneMatches) =>
    Outcome(ret, i, intSlot, strSlot) = Alone(FirstMatch)

\* spellings "-a -ab", int slot, tokens ["-ab", "5"]: "-a" matches first and
\* its remainder "b" is no number, so "-ab" is never tried
C4_Witness ==
  /\ called /\ kind = "int" /\ opt = FALSE /\ i0 = 0
  /\ argv = << <<"-","a","b">>, <<"5">> >>
  /\ names = <<"-","a"," ","-","a","b">>
  /\ ret = FALSE /\ i = 0 /\ SlotsUntouched

-----------------------------------------------------------------------------
(* C5 as stated: the current token equals a spelling, the slot is an int,  *)
(* a next token exists and does not convert; then the call returns         *)
(* valueOptional, the cursor is back at its pre-call value and the slots   *)
(* are untouched.                                                          *)
C5_AsStated ==
  (called /\ kind = "int" /\ SomeExact /\ HasNext /\ ~ExtractInt(NextTok).ok) =>
    (ret = opt /\ i = i0 /\ SlotsUntouched)

(* C5 amended: the same when the first spelling that matches the current   *)
(* token equals it.                                                        *)
C5_SeparateUnparseable ==
  (called /\ kind = "int" /\ FirstMatchExact /\ HasNext /\ ~ExtractInt(NextTok).ok) =>
    (ret = opt /\ i = i0 /\ SlotsUntouched)

\* optional int value, "-a" followed by a token that is no number
C5_Witness ==
  /\ called /\ kind = "int" /\ opt = TRUE
  /\ FirstMatchExact /\ HasNext /\ ~ExtractInt(NextTok).ok
  /\ ret = TRUE /\ i = i0 /\ SlotsUntouched

-----------------------------------------------------------------------------
(* C6 as stated: the current token equals a spelling, a slot is supplied   *)
(* and the token is the last one; then the call returns valueOptional,     *)
(* with the slots untouched, and the cursor is at its pre-call value.      *)
C6_AsStated ==
  (called /\ HasSlot /\ SomeExact /\ i0 = Len(argv) - 1) =>
    (ret = opt /\ i = i0 /\ SlotsUntouched)

(* C6 amended: the same when the first spelling that matches the current   *)
(* token equals it.                                                        *)
C6_DanglingValue ==
  (called /\ HasSlot /\ FirstMatchExact /\ i0 = Len(argv) - 1) =>
    (ret = opt /\ i = i0 /\ SlotsUntouched)

\* optional value, the option is the last token
C6_Witness ==
  /\ called /\ HasSlot /\ opt = TRUE
  /\ FirstMatchExact /\ i0 = Len(argv) - 1
  /\ ret = TRUE /\ i = i0 /\ SlotsUntouched

-----------------------------------------------------------------------------
(* C7 as stated: a spelling of length <= 2 is a proper prefix of the       *)
(* current token, a slot is supplied and the remainder converts; then the  *)
(* call returns true, the slot holds the value of the remainder and the    *)
(* cursor is unchanged; the token sequence is never modified.              *)
C7_AsStated ==
  called /\ HasSlot /\ AtToken =>
    \A n \in 1..Len(Spellings) :
      (/\ Len(Spellings[n]) <= 2
       /\ IsProperPrefix(Spellings[n], Tok)
       /\ Converts(Rest(Spellings[n], Tok)))
      => (ret = TRUE /\ SlotHolds(Rest(Spellings[n], Tok)) /\ i = i0 /\ argv = argv0)

(* C7 amended: the same when that spelling is the first of the list that   *)
(* matches the current token.                                              *)
C7_CombinedValue ==
  /\ argv = argv0
  /\ (called /\ FirstMatchCombined /\ Converts(Rest(Spellings[FirstMatch], Tok))) =>
       (/\ ret = TRUE
        /\ SlotHolds(Rest(Spellings[FirstMatch], Tok))
        /\ i = i0)

\* spellings "-a -ab", int slot, token "-a5"
C7_Witness ==
  /\ called /\ kind = "int" /\ AtToken
  /\ Tok = <<"-","a","5">>
  /\ names = <<"-","a"," ","-","a","b">>
  /\ ret = TRUE /\ intSlot = 5 /\ i = i0

-----------------------------------------------------------------------------
(* C8: without a value slot the call returns true exactly when the cursor  *)
(* is on a token equal to one of the spellings; the cursor is never        *)
(* changed, and the same call made again returns the same result.          *)
C8_PresenceFlag ==
  (called /\ kind = "none") =>
    (/\ ret = SomeExact
     /\ i = i0
     /\ SlotsUntouched
     /\ getOption(argv, i, names, kind, opt, intSlot, strSlot).ret = ret)

\* a presence flag found, the cursor still on it
C8_Witness ==
  /\ called /\ kind = "none" /\ ret = TRUE
  /\ AtToken /\ Tok = <<"-","a">> /\ i = i0

-----------------------------------------------------------------------------
(* C9: after every call the cursor is within 0..length(tokens), it is at   *)
(* its pre-call value or one greater, never smaller, and it is one greater *)
(* only when the call returned true and stored the value of the token that *)
(* follows the option token.                                               *)
C9_CursorDiscipline ==
  /\ 0 <= i /\ i <= Len(argv)
  /\ called =>
       /\ i >= i0
       /\ (i = i0 \/ i = i0 + 1)
       /\ (i = i0 + 1) => (ret = TRUE /\ HasSlot /\ HasNext /\ SlotHolds(NextTok))

\* a value-consuming call that moves the cursor, made after an earlier call
\* took a combined value from the same token and left the cursor on it
C9_Witness ==
  /\ called /\ i0 = 0 /\ i = 1 /\ ret = TRUE
  /\ kind = "int" /\ intSlot = 5 /\ int0 = 0
  /\ strSlot = <<"5">> /\ str0 = <<"5">>

-----------------------------------------------------------------------------
(* C10: a < b is the lexicographic order on (major, minor, patch) and      *)
(* a <= b holds exactly when a < b or a == b.                              *)
LexLess(a, b) ==
  \/ a.major < b.major
  \/ a.major = b.major /\ a.minor < b.minor
  \/ a.major = b.major /\ a.minor = b.minor /\ a.patch < b.patch

C10_Lexicographic ==
  cmpDone => (/\ lt = LexLess(va, vb)
              /\ le = (lt \/ eq))

=============================================================================
